---------------------------- MODULE Spec2Model ----------------------------
(***************************************************************************)
(* Reconciliation primitives of crossplane-runtime against a versioned     *)
(* object store: the patching and updating Applicators, the connection     *)
(* secret propagator and publisher, the finalizer helper and the           *)
(* external-name initializer.                                              *)
(*                                                                         *)
(* Every client call (Get, Create, Update, Patch) is one atomic step of    *)
(* the store; the local code between two calls belongs to the step of the  *)
(* call that follows it, and the code after the last call to that call's   *)
(* step.  Other writers of the store act between the steps.                *)
(***************************************************************************)
EXTENDS Naturals, Sequences, FiniteSets, TLC

\* Bounds of the model.
MaxRV == 3          \* operations and other writers start while clock < MaxRV
MaxOpts == 2        \* longest list of Apply Options supplied to Apply

\* The controllers (concurrent reconciles) and the domain values.
Procs == {"p1", "p2"}
UIDs == {"u1", "u2"}
NoUID == "none"
SecretKeys == {"creds", "claim"}
NoRef == "noref"
DataKeys == {"user", "pass"}
Values == {"a"}
Absent == ""
NoRV == 0

VARIABLES
    secrets,    \* the store's secrets: a function from the keys present
    managed,    \* the store's managed resources: a function from the keys present
    clock,      \* the store's last resource version
    pc,         \* per controller: where it is in its operation
    op,         \* per controller: the operation and its inputs
    ao,         \* per controller: the Apply Options handed to Apply
    o,          \* per controller: Apply's object variable o
    desired,    \* per controller: patching Apply's snapshot of o
    current,    \* per controller: updating Apply's copy that Get fills
    from,       \* per controller: PropagateConnection's source secret
    mg,         \* per controller: the in-memory managed resource
    ret,        \* per controller: the error the last operation returned
    log,        \* per controller: the store calls of the operation, in order
    invoked     \* per controller: how many Apply Options were called

vars == <<secrets, managed, clock, pc, op, ao, o, desired, current, from, mg,
          ret, log, invoked>>

----------------------------------------------------------------------------
\* Objects.

ZeroData == [k \in DataKeys |-> Absent]

ZeroSecret == [rv |-> NoRV, ctrl |-> NoUID, data |-> ZeroData, propTo |-> {}]

\* The payloads: each key holds a value or is absent.
DataMaps == [DataKeys -> Values \cup {Absent}]

\* errors.Wrap: nil stays nil, otherwise the message is put before the cause.
nil == << >>

Wrap(err, msg) == IF err = nil THEN nil ELSE <<msg>> \o err

Cause(err) == IF err = nil THEN "nil" ELSE err[Len(err)]

IsNotFound(err) == err = <<"NotFound">>

IgnoreNotFound(err) == IF IsNotFound(err) THEN nil ELSE err

\* Error strings.
errGetSecret == "cannot get managed resource's connection secret"
errSecretConflict == "cannot establish control of existing connection secret"
errUpdateSecret == "cannot update connection secret"
errCreateOrUpdateSecret == "cannot create or update connection secret"
errUpdateManaged == "cannot update managed resource"

----------------------------------------------------------------------------
\* The object store's client, as the operations see it.  Each operator gives
\* the call's error, the store and clock after it and the object the server
\* answers with.  fault is a transport failure of that call.

Put(st, k, obj) == [x \in DOMAIN st \cup {k} |-> IF x = k THEN obj ELSE st[x]]

SameBody(a, b) == [a EXCEPT !.rv = NoRV] = [b EXCEPT !.rv = NoRV]

\* A write of obj over the stored object: a write that changes nothing keeps
\* the resource version, any other takes the next one.
Written(st, clk, k, obj) ==
    IF k \in DOMAIN st /\ SameBody(st[k], obj)
    THEN [err |-> nil, st |-> st, clk |-> clk, obj |-> st[k]]
    ELSE LET new == [obj EXCEPT !.rv = clk + 1]
         IN  [err |-> nil, st |-> Put(st, k, new), clk |-> clk + 1, obj |-> new]

Failed(st, clk, obj, e) == [err |-> <<e>>, st |-> st, clk |-> clk, obj |-> obj]

StoreCreate(st, clk, k, obj, fault) ==
    IF fault THEN Failed(st, clk, obj, "Other")
    ELSE IF k \in DOMAIN st THEN Failed(st, clk, obj, "AlreadyExists")
    ELSE Written(st, clk, k, obj)

\* Update replaces the whole object.  An object that carries a resource
\* version is refused with Conflict when the stored version differs; one that
\* carries none is written unconditionally by a store that allows
\* unconditional updates (uncond) and refused as Invalid by one that does not.
StoreUpdate(st, clk, k, obj, fault, uncond) ==
    IF fault THEN Failed(st, clk, obj, "Other")
    ELSE IF k \notin DOMAIN st THEN Failed(st, clk, obj, "NotFound")
    ELSE IF obj.rv = NoRV /\ ~uncond THEN Failed(st, clk, obj, "Invalid")
    ELSE IF obj.rv # NoRV /\ obj.rv # st[k].rv THEN Failed(st, clk, obj, "Conflict")
    ELSE Written(st, clk, k, obj)

\* A JSON merge patch: a field the body holds replaces the stored one, a map
\* is merged key by key, and a field the body leaves out is kept.
MergePatch(cur, body) ==
    [rv     |-> cur.rv,
     ctrl   |-> IF body.ctrl # NoUID THEN body.ctrl ELSE cur.ctrl,
     data   |-> [k \in DataKeys |->
                   IF body.data[k] # Absent THEN body.data[k] ELSE cur.data[k]],
     propTo |-> cur.propTo \cup body.propTo]

\* Patch checks the resource version only when the patch body carries one.
StorePatch(st, clk, k, body, fault) ==
    IF fault THEN Failed(st, clk, body, "Other")
    ELSE IF k \notin DOMAIN st THEN Failed(st, clk, body, "NotFound")
    ELSE IF body.rv # NoRV /\ body.rv # st[k].rv THEN Failed(st, clk, body, "Conflict")
    ELSE Written(st, clk, k, MergePatch(st[k], body))

\* A call of the client as the operation's log keeps it: the verb, the key, the
\* object sent (of a Get: the object read) and the answer.
Call(verb, k, body, err) ==
    [verb |-> verb, key |-> k, body |-> body, err |-> Cause(err)]

\* The last call of a log.
LastCall(lg) == lg[Len(lg)]

----------------------------------------------------------------------------
\* Apply Options.  An option is a function of (current, desired) that returns
\* an error or nil: one that always passes, one that vetoes with its own
\* error, or the connection secret's ownership guard for a UID.

Vetoes == {"veto1"}

Options ==
    {[kind |-> "pass", arg |-> NoUID]}
    \cup {[kind |-> "veto", arg |-> v] : v \in Vetoes}
    \cup {[kind |-> "ctrl", arg |-> u] : u \in {"u1"}}

OptionLists == UNION {[1..n -> Options] : n \in 0..MaxOpts}

ConnectionSecretMustBeControllableBy(u, cur, des) ==
    IF cur.ctrl # u THEN <<"OwnershipViolation">> ELSE nil

ApplyOption(opt, cur, des) ==
    CASE opt.kind = "pass" -> nil
      [] opt.kind = "veto" -> <<opt.arg>>
      [] opt.kind = "ctrl" -> ConnectionSecretMustBeControllableBy(opt.arg, cur, des)

\* for _, fn := range ao { if err := fn(ctx, current, desired); err != nil
\* { return err } }: the error of the first option that fails and the number
\* of options called.
RECURSIVE RunOptions(_, _, _, _)
RunOptions(opts, i, cur, des) ==
    IF i > Len(opts) THEN [err |-> nil, n |-> i - 1]
    ELSE LET e == ApplyOption(opts[i], cur, des)
         IN  IF e # nil THEN [err |-> e, n |-> i]
             ELSE RunOptions(opts, i + 1, cur, des)

----------------------------------------------------------------------------
\* The Applicators.

\* What the objects a caller hands to Apply may hold: no resource version or
\* one the store has given out, a controller reference or none, a payload.
Payloads == DataMaps

Desireds ==
    [rv : 0..clock, ctrl : {NoUID, "u1"}, data : Payloads, propTo : {{}}]

\* An operation and its inputs: the secret it writes (key), the UID of the
\* owner it writes for (uid), the object it applies (arg) and, of a
\* propagation, the source secret (src) and its managed resource's UID (suid).
NoOp == [name |-> "none", key |-> NoRef, uid |-> NoUID, src |-> NoRef,
         suid |-> NoUID, arg |-> ZeroSecret]

\* The operation returns e to its caller.
Returned(p, e) ==
    /\ pc' = [pc EXCEPT ![p] = "done"]
    /\ ret' = [ret EXCEPT ![p] = e]

Goes(p, where) ==
    /\ pc' = [pc EXCEPT ![p] = where]
    /\ ret' = [ret EXCEPT ![p] = nil]

\* Mutant: PropagateConnection does not look at the error of Apply and goes on
\* to update the source secret.
ApplyReturnsUnchecked(p, name, e) ==
    CASE name = "PublishConnection" -> Returned(p, Wrap(e, errCreateOrUpdateSecret))
      [] name = "PropagateConnection" -> Goes(p, "mark")
      [] OTHER -> Returned(p, e)

\* The caller's code after Apply returned e: PublishConnection wraps the error
\* and returns, PropagateConnection returns the wrapped error or goes on to
\* update the source secret, a direct call of Apply is over.
ApplyReturns(p, name, e) ==
    CASE name = "PublishConnection" -> Returned(p, Wrap(e, errCreateOrUpdateSecret))
      [] name = "PropagateConnection" ->
            IF e # nil THEN Returned(p, Wrap(e, errCreateOrUpdateSecret))
            ELSE Goes(p, "mark")
      [] OTHER -> Returned(p, e)

\* Mutant: the Apply Options run on the create path too.
CreatePathOptionsAll(opts) == opts

\* The Apply Options run on the create path: none.
CreatePathOptions(opts) == << >>

\* Mutant: every option is called and an option's error does not abort.
OptionsVerdictIgnored(opts, cur, des) == [err |-> nil, n |-> Len(opts)]

\* The verdict of the Apply Options on an existing object.
OptionsVerdict(opts, cur, des) == RunOptions(opts, 1, cur, des)

\* The Get of Apply, and what follows from its answer.
Got(p, name, key, opts, r, lg, fault, write) ==
    /\ IF fault THEN ApplyReturns(p, name, Wrap(<<"Other">>, "cannot get object"))
       ELSE IF key \notin DOMAIN secrets THEN Goes(p, "create")
       ELSE IF r.err # nil THEN ApplyReturns(p, name, r.err)
       ELSE Goes(p, write)
    /\ ao' = [ao EXCEPT ![p] = opts]
    /\ invoked' = [invoked EXCEPT ![p] = r.n]
    /\ log' = [log EXCEPT ![p] =
                 Append(lg, IF fault THEN Call("Get", key, ZeroSecret, <<"Other">>)
                            ELSE IF key \in DOMAIN secrets
                            THEN Call("Get", key, secrets[key], nil)
                            ELSE Call("Get", key, ZeroSecret, <<"NotFound">>))]
    /\ UNCHANGED <<secrets, managed, clock>>

\* APIPatchingApplicator.Apply up to its write: the snapshot, the Get into o
\* and the Apply Options on (o, desired).
PatchingGet(p, name, key, obj, opts, lg, fault) ==
    LET found == ~fault /\ key \in DOMAIN secrets
        cur == IF found THEN secrets[key] ELSE obj
        r == OptionsVerdict(IF found THEN opts ELSE CreatePathOptions(opts), cur, obj)
    IN  /\ desired' = [desired EXCEPT ![p] = obj]
        /\ o' = [o EXCEPT ![p] = cur]
        /\ current' = [current EXCEPT ![p] = ZeroSecret]
        /\ Got(p, name, key, opts, r, lg, fault, "patch")

\* APIUpdatingApplicator.Apply up to its write: the Get into a copy of o and
\* the Apply Options on (current, o).
UpdatingGet(p, name, key, obj, opts, lg, fault) ==
    LET found == ~fault /\ key \in DOMAIN secrets
        cur == IF found THEN secrets[key] ELSE obj
        r == OptionsVerdict(IF found THEN opts ELSE CreatePathOptions(opts), cur, obj)
    IN  /\ current' = [current EXCEPT ![p] = cur]
        /\ o' = [o EXCEPT ![p] = obj]
        /\ desired' = [desired EXCEPT ![p] = ZeroSecret]
        /\ Got(p, name, key, opts, r, lg, fault, "update")

\* The store answered the write r: the store changes, o takes the answer.
Wrote(p, r, call) ==
    /\ secrets' = r.st
    /\ clock' = r.clk
    /\ o' = [o EXCEPT ![p] = IF r.err = nil THEN r.obj ELSE @]
    /\ log' = [log EXCEPT ![p] = Append(@, call)]

\* Mutant: the patch carries the resource version that the Get read.
PatchBodyVersioned(p) == [desired[p] EXCEPT !.rv = o[p].rv]

\* Mutant: the patch is made of o, which the Get has filled.
PatchBodyRead(p) == o[p]

\* The body of the merge patch: patch{desired}, marshalled by Data.
PatchBody(p) == desired[p]

\* Mutant: the updating Applicator sends back the copy that its Get filled.
UpdateObjectCurrent(p) == current[p]

\* The object the updating Applicator sends: o, with the version it came with.
UpdateObject(p) == o[p]

\* return errors.Wrap(a.client.Create(ctx, o), "cannot create object")
ApplyCreate(p) ==
    /\ pc[p] = "create"
    /\ \E fault \in BOOLEAN :
        LET r == StoreCreate(secrets, clock, op[p].key, o[p], fault)
        IN  /\ Wrote(p, r, Call("Create", op[p].key, o[p], r.err))
            /\ ApplyReturns(p, op[p].name, Wrap(r.err, "cannot create object"))
    /\ UNCHANGED <<managed, op, ao, desired, current, from, mg, invoked>>

\* return errors.Wrap(a.client.Patch(ctx, o, &patch{desired}), "cannot patch object")
ApplyPatch(p) ==
    /\ pc[p] = "patch"
    /\ \E fault \in BOOLEAN :
        LET r == StorePatch(secrets, clock, op[p].key, PatchBody(p), fault)
        IN  /\ Wrote(p, r, Call("Patch", op[p].key, PatchBody(p), r.err))
            /\ ApplyReturns(p, op[p].name, Wrap(r.err, "cannot patch object"))
    /\ UNCHANGED <<managed, op, ao, desired, current, from, mg, invoked>>

\* return errors.Wrap(a.client.Update(ctx, o), "cannot update object")
ApplyUpdate(p) ==
    /\ pc[p] = "update"
    /\ \E fault \in BOOLEAN, uncond \in BOOLEAN :
        LET r == StoreUpdate(secrets, clock, op[p].key, UpdateObject(p), fault, uncond)
        IN  /\ Wrote(p, r, Call("Update", op[p].key, UpdateObject(p), r.err))
            /\ ApplyReturns(p, op[p].name, Wrap(r.err, "cannot update object"))
    /\ UNCHANGED <<managed, op, ao, desired, current, from, mg, invoked>>

\* A caller applies obj with the options opts through the patching Applicator.
PatchingApply(p) ==
    /\ pc[p] = "ready"
    /\ clock < MaxRV
    /\ \E obj \in Desireds, opts \in OptionLists, fault \in BOOLEAN :
        /\ op' = [op EXCEPT ![p] = [NoOp EXCEPT !.name = "PatchingApply",
                                    !.key = "creds", !.arg = obj]]
        /\ PatchingGet(p, "PatchingApply", "creds", obj, opts, << >>, fault)
    /\ UNCHANGED <<from, mg>>

\* A caller applies obj with the options opts through the updating Applicator.
UpdatingApply(p) ==
    /\ pc[p] = "ready"
    /\ clock < MaxRV
    /\ \E obj \in Desireds, opts \in OptionLists, fault \in BOOLEAN :
        /\ op' = [op EXCEPT ![p] = [NoOp EXCEPT !.name = "UpdatingApply",
                                    !.key = "creds", !.arg = obj]]
        /\ UpdatingGet(p, "UpdatingApply", "creds", obj, opts, << >>, fault)
    /\ UNCHANGED <<from, mg>>

----------------------------------------------------------------------------
\* The connection secret publisher and propagator.

\* ConnectionSecretFor, LocalConnectionSecretFor: the secret of an owner, with
\* the owner as its controller and nothing else.
ConnectionSecretFor(uid) == [ZeroSecret EXCEPT !.ctrl = uid]

LocalConnectionSecretFor(uid) == [ZeroSecret EXCEPT !.ctrl = uid]

\* meta.AllowPropagation: the source secret is marked for the destination.
AllowPropagation(frm, to) == [frm EXCEPT !.propTo = @ \cup {to}]

\* Mutant: Apply is called without the ownership guard.
GuardForNone(uid) == << >>

\* The Apply Options of both operations: the ownership guard for the owner.
GuardFor(uid) == <<[kind |-> "ctrl", arg |-> uid]>>

\* PublishConnection's guard: the resource exposes no connection secret.
PublishSkips(ref) == ref = NoRef

\* Mutant: the publisher is given the updating Applicator.
PublisherApplyUpdating(p, name, key, obj, opts, lg, fault) ==
    UpdatingGet(p, name, key, obj, opts, lg, fault)

\* a.secret.Apply: NewAPISecretPublisher injects the patching Applicator.
PublisherApply(p, name, key, obj, opts, lg, fault) ==
    PatchingGet(p, name, key, obj, opts, lg, fault)

\* PublishConnection of the details c for a managed resource of UID uid whose
\* secret reference is ref, up to the Get of its patching Apply.
PublishConnection(p) ==
    /\ pc[p] = "ready"
    /\ clock < MaxRV
    /\ \E uid \in UIDs, ref \in {NoRef, "creds"}, c \in Payloads, fault \in BOOLEAN :
        LET s == [ConnectionSecretFor(uid) EXCEPT !.data = c]
            call == [NoOp EXCEPT !.name = "PublishConnection", !.key = ref,
                                 !.uid = uid, !.arg = s]
        IN  /\ op' = [op EXCEPT ![p] = call]
            /\ IF PublishSkips(ref)
               THEN /\ ~fault
                    /\ Returned(p, nil)
                    /\ UNCHANGED <<secrets, managed, clock, ao, o, desired, current,
                                   log, invoked>>
               ELSE PublisherApply(p, "PublishConnection", ref, s,
                                   GuardFor(uid), << >>, fault)
    /\ UNCHANGED <<from, mg>>

\* The reconciler calls PublishConnection again, for the same managed resource
\* and with the same details, after a call that returned nil: the same code,
\* from the construction of s to the Get of its patching Apply.  The log of
\* the first call is kept in front of the second one's.
PublishConnectionAgain(p) ==
    /\ pc[p] = "done"
    /\ op[p].name = "PublishConnection"
    /\ ~PublishSkips(op[p].key)
    /\ ret[p] = nil
    /\ Len(log[p]) = 2
    /\ \E fault \in BOOLEAN :
        LET s == [ConnectionSecretFor(op[p].uid) EXCEPT !.data = op[p].arg.data]
        IN  PublisherApply(p, "PublishConnection", op[p].key, s,
                           GuardFor(op[p].uid), log[p], fault)
    /\ UNCHANGED <<op, from, mg>>

\* Mutant: only a managed resource without secret reference is skipped.
PropagateSkipsSourceOnly(mgref, oref) == mgref = NoRef

\* PropagateConnection's guard: no secret on one side or the other.
PropagateSkips(mgref, oref) == mgref = NoRef \/ oref = NoRef

\* Mutant: only a source secret without controller is refused.
SourceConflictNoController(frm, mguid) == frm.ctrl = NoUID

\* PropagateConnection's check of the source secret it read.
SourceConflict(frm, mguid) == frm.ctrl = NoUID \/ frm.ctrl # mguid

\* PropagateConnection from a managed resource (UID mguid, secret mgref) to an
\* owner (UID ouid, secret oref), up to Apply: the Get of the source secret,
\* the check of its controller, the destination secret and the marker.
PropagateGet(p, mguid, mgref, ouid, oref, fault) ==
    LET call == [NoOp EXCEPT !.name = "PropagateConnection", !.key = oref,
                             !.uid = ouid, !.src = mgref, !.suid = mguid]
        found == ~fault /\ mgref \in DOMAIN secrets
        frm == IF found THEN secrets[mgref] ELSE ZeroSecret
        to == [LocalConnectionSecretFor(ouid) EXCEPT !.data = frm.data]
        get == IF fault THEN Call("Get", mgref, ZeroSecret, <<"Other">>)
               ELSE IF found THEN Call("Get", mgref, frm, nil)
               ELSE Call("Get", mgref, ZeroSecret, <<"NotFound">>)
    IN  IF PropagateSkips(mgref, oref)
        THEN /\ ~fault
             /\ op' = [op EXCEPT ![p] = call]
             /\ Returned(p, nil)
             /\ log' = [log EXCEPT ![p] = << >>]
             /\ from' = [from EXCEPT ![p] = ZeroSecret]
             /\ o' = [o EXCEPT ![p] = ZeroSecret]
        ELSE /\ log' = [log EXCEPT ![p] = <<get>>]
             /\ IF ~found
                THEN /\ Returned(p, Wrap(<<get.err>>, errGetSecret))
                     /\ op' = [op EXCEPT ![p] = call]
                     /\ from' = [from EXCEPT ![p] = ZeroSecret]
                     /\ o' = [o EXCEPT ![p] = ZeroSecret]
                ELSE IF SourceConflict(frm, mguid)
                THEN /\ Returned(p, <<errSecretConflict>>)
                     /\ op' = [op EXCEPT ![p] = call]
                     /\ from' = [from EXCEPT ![p] = frm]
                     /\ o' = [o EXCEPT ![p] = ZeroSecret]
                ELSE /\ Goes(p, "apply")
                     /\ op' = [op EXCEPT ![p] = [call EXCEPT !.arg = to]]
                     /\ from' = [from EXCEPT ![p] = AllowPropagation(frm, oref)]
                     /\ o' = [o EXCEPT ![p] = to]

\* A reconcile calls PropagateConnection.
PropagateConnection(p) ==
    /\ pc[p] = "ready"
    /\ clock < MaxRV
    /\ \E mguid \in UIDs, mgref \in {NoRef, "creds"}, ouid \in UIDs,
          oref \in {NoRef, "claim"}, fault \in BOOLEAN :
        PropagateGet(p, mguid, mgref, ouid, oref, fault)
    /\ UNCHANGED <<secrets, managed, clock, ao, desired, current, mg, invoked>>

\* The reconciler calls PropagateConnection again for the same managed
\* resource and owner, whatever the call before returned: the whole operation
\* from its first statement, with variables of its own.
PropagateConnectionAgain(p) ==
    /\ pc[p] = "done"
    /\ op[p].name = "PropagateConnection"
    /\ \E fault \in BOOLEAN :
        PropagateGet(p, op[p].suid, op[p].src, op[p].uid, op[p].key, fault)
    /\ ao' = [ao EXCEPT ![p] = << >>]
    /\ desired' = [desired EXCEPT ![p] = ZeroSecret]
    /\ current' = [current EXCEPT ![p] = ZeroSecret]
    /\ invoked' = [invoked EXCEPT ![p] = 0]
    /\ UNCHANGED <<secrets, managed, clock, mg>>

\* a.client.Apply(ctx, to, ConnectionSecretMustBeControllableBy(o.GetUID())),
\* up to its write.
PropagateApply(p) ==
    /\ pc[p] = "apply"
    /\ \E fault \in BOOLEAN :
        UpdatingGet(p, "PropagateConnection", op[p].key, o[p],
                    GuardFor(op[p].uid), log[p], fault)
    /\ UNCHANGED <<op, from, mg>>

\* Mutant: a failure of the source secret's update is not reported.
MarkErrorDropped(e) == nil

\* The error PropagateConnection returns for that of its last Update.
MarkError(e) == Wrap(e, errUpdateSecret)

\* return errors.Wrap(a.client.Update(ctx, from), errUpdateSecret)
PropagateMark(p) ==
    /\ pc[p] = "mark"
    /\ \E fault \in BOOLEAN, uncond \in BOOLEAN :
        LET r == StoreUpdate(secrets, clock, op[p].src, from[p], fault, uncond)
        IN  /\ secrets' = r.st
            /\ clock' = r.clk
            /\ from' = [from EXCEPT ![p] = IF r.err = nil THEN r.obj ELSE @]
            /\ log' = [log EXCEPT ![p] = Append(@, Call("Update", op[p].src, from[p], r.err))]
            /\ Returned(p, MarkError(r.err))
    /\ UNCHANGED <<managed, op, ao, o, desired, current, mg, invoked>>

\* The caller has the operation's result; the operation's variables end.
Return(p) ==
    /\ pc[p] = "done"
    /\ pc' = [pc EXCEPT ![p] = "ready"]
    /\ op' = [op EXCEPT ![p] = NoOp]
    /\ ao' = [ao EXCEPT ![p] = << >>]
    /\ o' = [o EXCEPT ![p] = ZeroSecret]
    /\ desired' = [desired EXCEPT ![p] = ZeroSecret]
    /\ current' = [current EXCEPT ![p] = ZeroSecret]
    /\ from' = [from EXCEPT ![p] = ZeroSecret]
    /\ ret' = [ret EXCEPT ![p] = nil]
    /\ log' = [log EXCEPT ![p] = << >>]
    /\ invoked' = [invoked EXCEPT ![p] = 0]
    /\ UNCHANGED <<secrets, managed, clock, mg>>

----------------------------------------------------------------------------
\* The other writers of the store.  A returned operation hands its result to
\* its caller before the next write of another client is looked at.

Delivered == \A p \in Procs : pc[p] # "done"

\* Another client creates or rewrites a secret.
OtherWrite(keys) ==
    /\ Delivered
    /\ clock < MaxRV
    /\ \E k \in keys, c \in UIDs \cup {NoUID}, d \in DataMaps :
        LET obj == [rv |-> NoRV, ctrl |-> c, data |-> d,
                    propTo |-> IF k \in DOMAIN secrets THEN secrets[k].propTo ELSE {}]
            r == Written(secrets, clock, k, obj)
        IN  /\ r.st # secrets
            /\ secrets' = r.st
            /\ clock' = r.clk
    /\ UNCHANGED <<managed, pc, op, ao, o, desired, current, from, mg, ret, log,
                   invoked>>

\* Another client, or the garbage collector, deletes a secret.
OtherDelete(keys) ==
    /\ Delivered
    /\ \E k \in keys \cap DOMAIN secrets :
        secrets' = [x \in DOMAIN secrets \ {k} |-> secrets[x]]
    /\ UNCHANGED <<managed, clock, pc, op, ao, o, desired, current, from, mg, ret,
                   log, invoked>>

----------------------------------------------------------------------------
\* The finalizer helper and the external-name initializer, on the managed
\* resource "db-1".  Each controller works on the copy of the resource it read
\* and has a finalizer of its own.

Name == "db-1"

ExternalNames == {"", Name, "ext-7"}

Finalizer == [p \in Procs |-> IF p = "p1" THEN "f1" ELSE "f2"]

Tokens == {Finalizer[p] : p \in Procs}

\* meta.FinalizerExists, AddFinalizer, RemoveFinalizer, GetExternalName and
\* SetExternalName.
FinalizerExists(m, f) == f \in m.fin

MetaAddFinalizer(m, f) == [m EXCEPT !.fin = @ \cup {f}]

MetaRemoveFinalizer(m, f) == [m EXCEPT !.fin = @ \ {f}]

GetExternalName(m) == m.ext

SetExternalName(m, n) == [m EXCEPT !.ext = n]

\* The reconciler reads the managed resource before it calls the helpers.
ReadManaged(p) ==
    /\ pc[p] = "ready"
    /\ Name \in DOMAIN managed
    /\ mg[p] # managed[Name]
    /\ mg' = [mg EXCEPT ![p] = managed[Name]]
    /\ UNCHANGED <<secrets, managed, clock, pc, op, ao, o, desired, current, from,
                   ret, log, invoked>>

\* Mutant: the update is sent with the version the store holds now.
ManagedUpdateObjectRefreshed(m) ==
    IF Name \in DOMAIN managed THEN [m EXCEPT !.rv = managed[Name].rv] ELSE m

\* The object the helpers send: mg, with the resource version it was read at.
ManagedUpdateObject(m) == m

\* Mutant: the helper changes a copy and hands the caller's object back as
\* it was when the update fails.
InMemoryAfterRolledBack(before, m, r) == IF r.err = nil THEN r.obj ELSE before

\* The caller's object after the call: the helper has changed it in place
\* (meta.AddFinalizer(mg, ...), meta.SetExternalName(mg, ...)) before the
\* Update, which fills it with the stored object when it succeeds.
InMemoryAfter(before, m, r) == IF r.err = nil THEN r.obj ELSE m

\* a.client.Update(ctx, mg) and the return of e as this call's error.
UpdateManaged(p, name, before, m, e) ==
    \E fault \in BOOLEAN :
        LET r == StoreUpdate(managed, clock, Name, ManagedUpdateObject(m), fault, FALSE)
        IN  /\ managed' = r.st
            /\ clock' = r.clk
            /\ mg' = [mg EXCEPT ![p] = InMemoryAfter(before, m, r)]
            /\ log' = [log EXCEPT ![p] = <<Call("Update", Name, m, r.err)>>]
            /\ op' = [op EXCEPT ![p] = [NoOp EXCEPT !.name = name, !.arg = before]]
            /\ Returned(p, e[r.err])

\* The operation returns nil without a call of the store.
NoCall(p, name) ==
    /\ op' = [op EXCEPT ![p] = [NoOp EXCEPT !.name = name, !.arg = mg[p]]]
    /\ Returned(p, nil)
    /\ UNCHANGED <<managed, clock, mg, log>>

StoreErrors == {nil} \cup {<<e>> : e \in {"NotFound", "Conflict", "Invalid", "Other"}}

\* Mutant: the finalizer is added and written whether or not it is there.
AddFinalizerSkipsNever(m, f) == FALSE

\* if meta.FinalizerExists(mg, a.finalizer) { return nil }
AddFinalizerSkips(m, f) == FinalizerExists(m, f)

AddFinalizerError == [e \in StoreErrors |-> Wrap(e, errUpdateManaged)]

\* APIFinalizer.AddFinalizer
AddFinalizer(p) ==
    /\ pc[p] = "ready"
    /\ clock < MaxRV
    /\ mg[p].rv # NoRV
    /\ IF AddFinalizerSkips(mg[p], Finalizer[p])
       THEN NoCall(p, "AddFinalizer")
       ELSE UpdateManaged(p, "AddFinalizer", mg[p],
                          MetaAddFinalizer(mg[p], Finalizer[p]), AddFinalizerError)
    /\ UNCHANGED <<secrets, ao, o, desired, current, from, invoked>>

\* Mutant: a NotFound of the update is returned like any other error.
RemoveFinalizerErrorAll == [e \in StoreErrors |-> Wrap(e, errUpdateManaged)]

\* errors.Wrap(resource.IgnoreNotFound(a.client.Update(ctx, mg)), errUpdateManaged)
RemoveFinalizerError == [e \in StoreErrors |-> Wrap(IgnoreNotFound(e), errUpdateManaged)]

\* APIFinalizer.RemoveFinalizer
RemoveFinalizer(p) ==
    /\ pc[p] = "ready"
    /\ clock < MaxRV
    /\ mg[p].rv # NoRV
    /\ UpdateManaged(p, "RemoveFinalizer", mg[p],
                     MetaRemoveFinalizer(mg[p], Finalizer[p]), RemoveFinalizerError)
    /\ UNCHANGED <<secrets, ao, o, desired, current, from, invoked>>

\* Mutant: the external name is set whether or not there is one.
InitializeSkipsNever(m) == FALSE

\* if meta.GetExternalName(mg) != "" { return nil }
InitializeSkips(m) == GetExternalName(m) # ""

InitializeError == [e \in StoreErrors |-> Wrap(e, errUpdateManaged)]

\* NameAsExternalName.Initialize
Initialize(p) ==
    /\ pc[p] = "ready"
    /\ clock < MaxRV
    /\ mg[p].rv # NoRV
    /\ IF InitializeSkips(mg[p])
       THEN NoCall(p, "Initialize")
       ELSE UpdateManaged(p, "Initialize", mg[p],
                          SetExternalName(mg[p], Name), InitializeError)
    /\ UNCHANGED <<secrets, ao, o, desired, current, from, invoked>>

\* Another client creates or rewrites the managed resource.
OtherManagedWrite ==
    /\ Delivered
    /\ clock < MaxRV
    /\ \E f \in SUBSET Tokens, e \in ExternalNames :
        LET r == Written(managed, clock, Name, [rv |-> NoRV, fin |-> f, ext |-> e])
        IN  /\ r.st # managed
            /\ managed' = r.st
            /\ clock' = r.clk
    /\ UNCHANGED <<secrets, pc, op, ao, o, desired, current, from, mg, ret, log,
                   invoked>>

\* The managed resource is deleted.
OtherManagedDelete ==
    /\ Delivered
    /\ Name \in DOMAIN managed
    /\ managed' = << >>
    /\ UNCHANGED <<secrets, clock, pc, op, ao, o, desired, current, from, mg, ret,
                   log, invoked>>

----------------------------------------------------------------------------
\* The state before any operation: an empty store and idle controllers.

ZeroManaged == [rv |-> NoRV, fin |-> {}, ext |-> ""]

Init ==
    /\ secrets = << >>
    /\ managed = << >>
    /\ clock = 0
    /\ pc = [p \in Procs |-> "ready"]
    /\ op = [p \in Procs |-> NoOp]
    /\ ao = [p \in Procs |-> << >>]
    /\ o = [p \in Procs |-> ZeroSecret]
    /\ desired = [p \in Procs |-> ZeroSecret]
    /\ current = [p \in Procs |-> ZeroSecret]
    /\ from = [p \in Procs |-> ZeroSecret]
    /\ mg = [p \in Procs |-> ZeroManaged]
    /\ ret = [p \in Procs |-> nil]
    /\ log = [p \in Procs |-> << >>]
    /\ invoked = [p \in Procs |-> 0]

\* One caller of the Applicators and the other writers of its object.
NextApply ==
    \/ PatchingApply("p1")
    \/ UpdatingApply("p1")
    \/ ApplyCreate("p1")
    \/ ApplyPatch("p1")
    \/ ApplyUpdate("p1")
    \/ Return("p1")
    \/ OtherWrite({"creds"})
    \/ OtherDelete({"creds"})

SpecApply == Init /\ [][NextApply]_vars

\* One controller that publishes and propagates connection secrets, and the
\* other writers of the two secrets.
NextSecret ==
    \/ PublishConnection("p1")
    \/ PropagateConnection("p1")
    \/ PropagateApply("p1")
    \/ ApplyCreate("p1")
    \/ ApplyPatch("p1")
    \/ ApplyUpdate("p1")
    \/ PropagateMark("p1")
    \/ Return("p1")
    \/ OtherWrite(SecretKeys)
    \/ OtherDelete(SecretKeys)

SpecSecret == Init /\ [][NextSecret]_vars

\* One controller that publishes the connection details of its managed
\* resource and publishes them again, and the other writers of the secret.
NextRepublish ==
    \/ PublishConnection("p1")
    \/ PublishConnectionAgain("p1")
    \/ ApplyCreate("p1")
    \/ ApplyPatch("p1")
    \/ Return("p1")
    \/ OtherWrite({"creds"})
    \/ OtherDelete({"creds"})

SpecRepublish == Init /\ [][NextRepublish]_vars

\* One controller that propagates connection secrets, and the other writers
\* of the two secrets, none of which deletes.
NextPropagate ==
    \/ PropagateConnection("p1")
    \/ PropagateApply("p1")
    \/ ApplyCreate("p1")
    \/ ApplyUpdate("p1")
    \/ PropagateMark("p1")
    \/ Return("p1")
    \/ OtherWrite(SecretKeys)

SpecPropagate == Init /\ [][NextPropagate]_vars

\* The reconciler of an owner (p1) that calls PropagateConnection and calls
\* it again and again for the same managed resource and owner, next to the
\* managed resource's reconciler (p2), which publishes connection details to
\* the source secret.
NextRerun ==
    \/ PropagateConnection("p1")
    \/ PropagateConnectionAgain("p1")
    \/ PropagateApply("p1")
    \/ ApplyCreate("p1")
    \/ ApplyUpdate("p1")
    \/ PropagateMark("p1")
    \/ PublishConnection("p2")
    \/ ApplyCreate("p2")
    \/ ApplyPatch("p2")
    \/ Return("p2")

\* The step's call of the store got through: the transport did not fail and
\* the store did not refuse an update for want of a resource version.
Through(p) ==
    /\ Len(log'[p]) > 0
    /\ LastCall(log'[p]).err \notin {"Other", "Invalid"}

\* The reconciler keeps calling PropagateConnection, and of the calls that
\* each of its statements makes again and again, some get through.
FairRerun ==
    /\ SF_vars(PropagateConnectionAgain("p1") /\ Through("p1"))
    /\ SF_vars(PropagateApply("p1") /\ Through("p1"))
    /\ SF_vars(ApplyCreate("p1") /\ Through("p1"))
    /\ SF_vars(ApplyUpdate("p1") /\ Through("p1"))
    /\ SF_vars(PropagateMark("p1") /\ Through("p1"))

SpecRerun == Init /\ [][NextRerun]_vars /\ FairRerun

\* Two controllers of one managed resource, and its other writers.
NextManaged ==
    \/ \E p \in Procs :
          \/ ReadManaged(p)
          \/ AddFinalizer(p)
          \/ RemoveFinalizer(p)
          \/ Initialize(p)
          \/ Return(p)
    \/ OtherManagedWrite
    \/ OtherManagedDelete

SpecManaged == Init /\ [][NextManaged]_vars

----------------------------------------------------------------------------
\* Properties of the Applicators, under SpecApply.

ApplyNames == {"PatchingApply", "UpdatingApply"}

Min(S) == CHOOSE x \in S : \A y \in S : x <= y

\* The payload holds every key of the details c with c's value.
Holds(data, c) == \A k \in DataKeys : c[k] # Absent => data[k] = c[k]

\* C2 as stated: updating Apply on an object it read at version V returns
\* Conflict and leaves the store alone whenever the stored version has moved
\* past V when its Update is attempted (a transport failure aside).
C2_StaleUpdateConflicts ==
    [][\A p \in Procs :
         (/\ pc[p] = "update" /\ pc'[p] = "done"
          /\ op[p].name = "UpdatingApply"
          /\ op[p].key \in DOMAIN secrets
          /\ secrets[op[p].key].rv > current[p].rv
          /\ LastCall(log'[p]).err # "Other")
         => /\ Cause(ret'[p]) = "Conflict"
            /\ secrets' = secrets]_vars

\* C5: Apply, of either variant, whose Get answers NotFound calls no Apply
\* Option and issues one Create of the object as the caller gave it, and no
\* Patch or Update.
C5_CreateAsGiven ==
    \A p \in Procs :
        (op[p].name \in ApplyNames /\ Len(log[p]) >= 1 /\ log[p][1].err = "NotFound")
        => /\ invoked[p] = 0
           /\ \/ pc[p] = "create" /\ Len(log[p]) = 1 /\ o[p] = op[p].arg
              \/ /\ pc[p] = "done" /\ Len(log[p]) = 2
                 /\ log[p][2].verb = "Create"
                 /\ log[p][2].body = op[p].arg

\* C5's case: options that would veto were supplied, the object was created.
C5_Witness ==
    \E p \in Procs :
        /\ pc[p] = "done" /\ op[p].name \in ApplyNames
        /\ Len(log[p]) = 2 /\ log[p][1].err = "NotFound" /\ log[p][2].err = "nil"
        /\ \E i \in 1..Len(ao[p]) : ao[p][i].kind = "veto"
        /\ op[p].key \in DOMAIN secrets
        /\ SameBody(secrets[op[p].key], op[p].arg)

\* The fields des leaves out have in after the value they have in before.
FrameKept(before, after, des) ==
    /\ des.ctrl = NoUID => after.ctrl = before.ctrl
    /\ \A k \in DataKeys : des.data[k] = Absent => after.data[k] = before.data[k]
    /\ des.propTo = {} => after.propTo = before.propTo

\* C6: the patch of patching Apply carries the caller's object as it was
\* handed in, and a patch that succeeds leaves every field that object does
\* not hold as the store has it when the patch arrives; one that fails
\* changes nothing.
C6_PatchKeepsFrame ==
    [][\A p \in Procs :
         (pc[p] = "patch" /\ pc'[p] = "done" /\ op[p].name = "PatchingApply")
         => LET c == LastCall(log'[p])
                k == op[p].key
            IN  /\ c.verb = "Patch"
                /\ c.body = op[p].arg
                /\ c.err = "nil" =>
                      /\ k \in DOMAIN secrets /\ k \in DOMAIN secrets'
                      /\ FrameKept(secrets[k], secrets'[k], op[p].arg)
                /\ c.err # "nil" => secrets' = secrets]_vars

\* C6's case: the password, which the caller's object does not hold, was
\* removed by another writer after the Get read it, and the patch that wrote
\* the user did not bring it back.
C6_Witness ==
    \E p \in Procs :
        /\ pc[p] = "done" /\ op[p].name = "PatchingApply"
        /\ Len(log[p]) = 2 /\ log[p][2].verb = "Patch" /\ log[p][2].err = "nil"
        /\ op[p].arg.data["pass"] = Absent /\ op[p].arg.data["user"] = "a"
        /\ log[p][1].body.data["pass"] = "a"
        /\ log[p][1].body.data["user"] = Absent
        /\ secrets[op[p].key].data["pass"] = Absent
        /\ secrets[op[p].key].data["user"] = "a"

\* C14: the Patch of patching Apply for an object without resource version,
\* when it finds the object and the transport does not fail, succeeds whatever
\* was written since Apply's Get, and leaves every field the object holds
\* with the object's value.
C14_PatchLastWriteWins ==
    [][\A p \in Procs :
         (/\ pc[p] = "patch" /\ pc'[p] = "done" /\ op[p].name = "PatchingApply"
          /\ op[p].arg.rv = NoRV
          /\ op[p].key \in DOMAIN secrets
          /\ LastCall(log'[p]).err # "Other")
         => /\ ret'[p] = nil
            /\ op[p].key \in DOMAIN secrets'
            /\ Holds(secrets'[op[p].key].data, op[p].arg.data)
            /\ op[p].arg.ctrl # NoUID => secrets'[op[p].key].ctrl = op[p].arg.ctrl]_vars

\* C14's case: Apply read the object with the fields of the desired one as
\* desired, at the last version but one that another writer can write; the
\* Patch succeeded and wrote a version after that one, so it changed a field
\* the desired object holds, which the write in between had changed.
C14_Witness ==
    \E p \in Procs :
        /\ pc[p] = "done" /\ op[p].name = "PatchingApply"
        /\ op[p].arg.rv = NoRV
        /\ op[p].arg.ctrl = "u1" /\ op[p].arg.data["user"] = "a"
        /\ Len(log[p]) = 2 /\ log[p][1].err = "nil"
        /\ log[p][1].body.rv = MaxRV - 1
        /\ log[p][1].body.ctrl = op[p].arg.ctrl
        /\ Holds(log[p][1].body.data, op[p].arg.data)
        /\ log[p][2].verb = "Patch" /\ log[p][2].err = "nil"
        /\ ret[p] = nil
        /\ secrets[op[p].key].rv = MaxRV + 1
        /\ secrets[op[p].key].ctrl = op[p].arg.ctrl
        /\ Holds(secrets[op[p].key].data, op[p].arg.data)

\* Before the Patch of C14: the controller that the desired object holds and
\* the Get read has been replaced by another writer.
C14_ChangedBeforePatch ==
    \E p \in Procs :
        /\ pc[p] = "patch" /\ op[p].name = "PatchingApply"
        /\ op[p].arg.rv = NoRV /\ op[p].arg.ctrl = "u1"
        /\ log[p][1].body.ctrl = "u1"
        /\ op[p].key \in DOMAIN secrets
        /\ secrets[op[p].key].ctrl = "u2"

\* The options of ao[p] that fail on the object Apply read and the one given.
Failing(p) ==
    {i \in 1..Len(ao[p]) : ApplyOption(ao[p][i], log[p][1].body, op[p].arg) # nil}

\* C7: on an existing object the options are called in order; when one fails,
\* Apply returns the error of the first that does, has called no option after
\* it and has issued no call but its Get, and the step leaves the store as it
\* is; when none fails, all were called.
C7_FirstFailureAborts ==
    /\ [](\A p \in Procs :
            (op[p].name \in ApplyNames /\ Len(log[p]) >= 1 /\ log[p][1].err = "nil")
            => IF Failing(p) = {}
               THEN invoked[p] = Len(ao[p])
               ELSE LET i == Min(Failing(p))
                    IN  /\ pc[p] = "done"
                        /\ ret[p] = ApplyOption(ao[p][i], log[p][1].body, op[p].arg)
                        /\ invoked[p] = i
                        /\ Len(log[p]) = 1)
    /\ [][\A p \in Procs :
            (pc[p] = "ready" /\ pc'[p] = "done") => secrets' = secrets]_vars

\* C7's case: the first of two options vetoes, the second would have failed
\* with another error, and Apply returned the first one's error.
C7_Witness ==
    \E p \in Procs :
        /\ pc[p] = "done" /\ op[p].name \in ApplyNames
        /\ Len(log[p]) = 1 /\ log[p][1].err = "nil"
        /\ Len(ao[p]) = 2 /\ ao[p][1].kind = "veto" /\ ao[p][2].kind = "ctrl"
        /\ log[p][1].body.ctrl # ao[p][2].arg
        /\ ret[p] = <<ao[p][1].arg>>
        /\ invoked[p] = 1

----------------------------------------------------------------------------
\* Properties of the publisher and the propagator, under SpecSecret.

SecretOps == {"PublishConnection", "PropagateConnection"}

\* C1 as stated: no write of PublishConnection or PropagateConnection changes
\* a stored secret whose controller is another UID than the owner the
\* operation writes for, whatever happened between its read and its write.
C1_NeverWritesForeignSecret ==
    [][\A p \in Procs :
         (/\ op[p].name \in SecretOps
          /\ pc[p] \in {"create", "patch", "update"} /\ pc'[p] # pc[p]
          /\ op[p].key \in DOMAIN secrets
          /\ secrets[op[p].key].ctrl \in UIDs \ {op[p].uid})
         => secrets' = secrets]_vars

\* C3: PropagateConnection that reads a source secret with no controller, or
\* with another controller than the managed resource, returns the ownership
\* conflict after that Get alone, and its step leaves the store as it is.
C3_SourceConflictWritesNothing ==
    /\ [](\A p \in Procs :
            (/\ op[p].name = "PropagateConnection"
             /\ Len(log[p]) >= 1 /\ log[p][1].err = "nil"
             /\ (log[p][1].body.ctrl = NoUID \/ log[p][1].body.ctrl # op[p].suid))
            => /\ pc[p] = "done"
               /\ ret[p] = <<errSecretConflict>>
               /\ Len(log[p]) = 1 /\ log[p][1].verb = "Get")
    /\ [][\A p \in Procs :
            (op'[p].name = "PropagateConnection" /\ pc[p] = "ready" /\ pc'[p] = "done")
            => secrets' = secrets]_vars

\* C3's case: the source secret is controlled by the other UID.
C3_Witness ==
    \E p \in Procs :
        /\ pc[p] = "done" /\ op[p].name = "PropagateConnection"
        /\ Len(log[p]) = 1 /\ log[p][1].err = "nil"
        /\ log[p][1].body.ctrl \in UIDs \ {op[p].suid}
        /\ log[p][1].body.data["user"] = "a"
        /\ ret[p] = <<errSecretConflict>>
        /\ op[p].key \notin DOMAIN secrets

\* C4: PublishConnection for a managed resource that reads its secret with
\* another UID as controller returns an error after that Get alone, and its
\* step leaves the store, the payload with it, as it is.
C4_ForeignSecretRefused ==
    /\ [](\A p \in Procs :
            (/\ op[p].name = "PublishConnection"
             /\ Len(log[p]) >= 1 /\ log[p][1].err = "nil"
             /\ log[p][1].body.ctrl \in UIDs \ {op[p].uid})
            => /\ pc[p] = "done"
               /\ ret[p] # nil
               /\ ret[p][1] = errCreateOrUpdateSecret
               /\ Len(log[p]) = 1 /\ log[p][1].verb = "Get")
    /\ [][\A p \in Procs :
            (op'[p].name = "PublishConnection" /\ pc[p] = "ready" /\ pc'[p] = "done")
            => secrets' = secrets]_vars

\* C4's case: the details differ from the payload of the foreign secret, which
\* is still stored.
C4_Witness ==
    \E p \in Procs :
        /\ pc[p] = "done" /\ op[p].name = "PublishConnection"
        /\ op[p].uid = "u1"
        /\ Len(log[p]) = 1 /\ log[p][1].err = "nil"
        /\ log[p][1].body.ctrl = "u2"
        /\ op[p].arg.data["user"] = "a"
        /\ secrets[op[p].key] = log[p][1].body
        /\ secrets[op[p].key].data["user"] = Absent
        /\ ret[p] # nil

\* C12: PropagateConnection from a managed resource without secret reference,
\* or to an owner without one, returns nil and has called the store not at
\* all; its step leaves the store as it is.
C12_NoReferenceNoCall ==
    /\ [](\A p \in Procs :
            (/\ op[p].name = "PropagateConnection"
             /\ (op[p].src = NoRef \/ op[p].key = NoRef))
            => /\ pc[p] = "done"
               /\ ret[p] = nil
               /\ log[p] = << >>)
    /\ [][\A p \in Procs :
            (/\ pc[p] = "ready" /\ op'[p].name = "PropagateConnection"
             /\ (op'[p].src = NoRef \/ op'[p].key = NoRef))
            => secrets' = secrets /\ clock' = clock]_vars

\* C12's case: the managed resource controls its secret, which holds a
\* payload, and the owner has no secret reference: no call, no copy.
C12_Witness ==
    \E p \in Procs :
        /\ pc[p] = "done" /\ op[p].name = "PropagateConnection"
        /\ op[p].src = "creds" /\ op[p].key = NoRef
        /\ "creds" \in DOMAIN secrets
        /\ secrets["creds"].ctrl = op[p].suid
        /\ secrets["creds"].data["user"] = "a"
        /\ secrets["creds"].propTo = {}
        /\ "claim" \notin DOMAIN secrets
        /\ ret[p] = nil /\ log[p] = << >>

\* The other case of C12: the managed resource has no secret reference.
C12_NoSourceReached ==
    \E p \in Procs :
        /\ pc[p] = "done" /\ op[p].name = "PropagateConnection"
        /\ op[p].src = NoRef /\ op[p].key = "claim"
        /\ ret[p] = nil /\ log[p] = << >>

\* C16: when the Update of the source secret fails, PropagateConnection
\* returns that error wrapped; the destination's Apply before it had written
\* the destination secret with the payload read from the source, and the
\* failing step leaves the store, that secret with it, as it is.
C16_MarkFailsDestinationStays ==
    /\ [](\A p \in Procs :
            (/\ op[p].name = "PropagateConnection"
             /\ Len(log[p]) = 4 /\ log[p][4].err # "nil")
            => /\ pc[p] = "done"
               /\ ret[p] = <<errUpdateSecret, log[p][4].err>>
               /\ log[p][3].verb \in {"Create", "Update"}
               /\ log[p][3].key = op[p].key
               /\ log[p][3].err = "nil"
               /\ log[p][3].body.data = log[p][1].body.data
               /\ log[p][3].body.ctrl = op[p].uid)
    /\ [][\A p \in Procs :
            (/\ pc[p] = "mark" /\ pc'[p] = "done"
             /\ LastCall(log'[p]).err # "nil")
            => secrets' = secrets]_vars

\* C16's case: another writer changed the source secret after it was read,
\* the Update met a Conflict and PropagateConnection returned it; the
\* destination secret is stored with the payload read from the source, and
\* the source secret without the marker.
C16_Witness ==
    \E p \in Procs :
        /\ pc[p] = "done" /\ op[p].name = "PropagateConnection"
        /\ Len(log[p]) = 4 /\ log[p][4].err = "Conflict"
        /\ ret[p] = <<errUpdateSecret, "Conflict">>
        /\ log[p][1].body.data["user"] = "a"
        /\ op[p].key \in DOMAIN secrets
        /\ secrets[op[p].key].data = log[p][1].body.data
        /\ secrets[op[p].key].ctrl = op[p].uid
        /\ op[p].src \in DOMAIN secrets
        /\ secrets[op[p].src].propTo = {}

\* C20: a PublishConnection that found its secret and returned nil has
\* written it with a merge: after its write every key of the details is stored
\* with the details' value, and every key the details do not hold is stored
\* with the value it had before the write.
C20_PublishMerges ==
    [][\A p \in Procs :
         (/\ op[p].name = "PublishConnection"
          /\ pc[p] # "done" /\ pc'[p] = "done"
          /\ Len(log'[p]) = 2 /\ log'[p][1].err = "nil"
          /\ ret'[p] = nil)
         => LET k == op[p].key
                c == op[p].arg.data
            IN  /\ k \in DOMAIN secrets /\ k \in DOMAIN secrets'
                /\ log'[p][2].verb = "Patch"
                /\ Holds(secrets'[k].data, c)
                /\ \A x \in DataKeys :
                      c[x] = Absent => secrets'[k].data[x] = secrets[k].data[x]]_vars

\* C20's case: the secret held a password and no user, the details hold a
\* user and no password, and the secret holds both after PublishConnection.
C20_Witness ==
    \E p \in Procs :
        /\ pc[p] = "done" /\ op[p].name = "PublishConnection"
        /\ Len(log[p]) = 2 /\ log[p][1].err = "nil" /\ log[p][2].err = "nil"
        /\ ret[p] = nil
        /\ log[p][1].body.ctrl = op[p].uid
        /\ log[p][1].body.data["user"] = Absent /\ log[p][1].body.data["pass"] = "a"
        /\ op[p].arg.data["user"] = "a" /\ op[p].arg.data["pass"] = Absent
        /\ secrets[op[p].key].data["user"] = "a"
        /\ secrets[op[p].key].data["pass"] = "a"

----------------------------------------------------------------------------
\* Properties of the repeated PublishConnection, under SpecRepublish.

\* C13: after a PublishConnection that returned nil the secret is controlled
\* by the managed resource and holds the details; the same call made again
\* passes the ownership guard and goes on to its Patch, and with no other
\* writer in between and no transport failure that Patch succeeds and leaves
\* the stored secret, the payload with it, as the first call left it.
C13_PublishIdempotent ==
    /\ [](\A p \in Procs :
            (/\ op[p].name = "PublishConnection"
             /\ Len(log[p]) >= 3 /\ log[p][3].err = "nil")
            => /\ log[p][3].body.ctrl = op[p].uid
               /\ Holds(log[p][3].body.data, op[p].arg.data)
               /\ invoked[p] = 1
               /\ \/ pc[p] = "patch" /\ Len(log[p]) = 3
                  \/ pc[p] = "done" /\ Len(log[p]) = 4 /\ log[p][4].verb = "Patch")
    /\ [][\A p \in Procs :
            (/\ op[p].name = "PublishConnection"
             /\ Len(log[p]) = 3 /\ pc[p] = "patch" /\ pc'[p] = "done"
             /\ op[p].key \in DOMAIN secrets
             /\ secrets[op[p].key] = log[p][3].body
             /\ LastCall(log'[p]).err # "Other")
            => /\ ret'[p] = nil
               /\ secrets' = secrets]_vars

\* C13's case: the first call created the secret with the user, the second
\* one patched it, both returned nil, and the secret is as the second call's
\* Get read it, at the same resource version.
C13_Witness ==
    \E p \in Procs :
        /\ pc[p] = "done" /\ op[p].name = "PublishConnection"
        /\ Len(log[p]) = 4
        /\ log[p][2].verb = "Create" /\ log[p][2].err = "nil"
        /\ log[p][3].err = "nil"
        /\ log[p][4].verb = "Patch" /\ log[p][4].err = "nil"
        /\ op[p].arg.data["user"] = "a"
        /\ ret[p] = nil
        /\ secrets[op[p].key] = log[p][3].body
        /\ secrets[op[p].key].data = op[p].arg.data

----------------------------------------------------------------------------
\* Properties of the propagator without deletes, under SpecPropagate.

\* The calls of the log lg that update the secret k.
UpdatesOf(lg, k) == {i \in 1..Len(lg) : lg[i].verb = "Update" /\ lg[i].key = k}

\* C15: PropagateConnection updates the source secret last and only after the
\* write of the destination secret's Apply succeeded; every step of it before
\* that update leaves the stored source secret as it is, so that an Apply
\* that failed or was vetoed leaves it without the marker; and a stored secret
\* marked for a destination has that destination in the store.
C15_WriteThenMark ==
    /\ [](\A p \in Procs :
            op[p].name = "PropagateConnection"
            => \A i \in UpdatesOf(log[p], op[p].src) :
                  /\ i = Len(log[p]) /\ i = 4
                  /\ log[p][i - 1].key = op[p].key
                  /\ log[p][i - 1].verb \in {"Create", "Update"}
                  /\ log[p][i - 1].err = "nil")
    /\ [](\A k \in DOMAIN secrets : \A d \in secrets[k].propTo : d \in DOMAIN secrets)
    /\ [][\A p \in Procs :
            (/\ op'[p].name = "PropagateConnection"
             /\ log'[p] # log[p]
             /\ pc[p] # "mark"
             /\ op'[p].src \in DOMAIN secrets)
            => /\ op'[p].src \in DOMAIN secrets'
               /\ secrets'[op'[p].src] = secrets[op'[p].src]]_vars

\* C15's case: the destination secret is controlled by another UID, Apply was
\* vetoed after its Get, and the source secret, marked in memory, is stored
\* without the marker.
C15_Witness ==
    \E p \in Procs :
        /\ pc[p] = "done" /\ op[p].name = "PropagateConnection"
        /\ Len(log[p]) = 2 /\ log[p][2].verb = "Get" /\ log[p][2].err = "nil"
        /\ log[p][2].body.ctrl \in UIDs \ {op[p].uid}
        /\ ret[p] # nil /\ ret[p][1] = errCreateOrUpdateSecret
        /\ from[p].propTo = {op[p].key}
        /\ secrets[op[p].src].propTo = {}

\* The other case of C15: the marker is stored and the destination is there.
C15_MarkedReached ==
    \E p \in Procs :
        /\ pc[p] = "done" /\ op[p].name = "PropagateConnection"
        /\ Len(log[p]) = 4 /\ log[p][4].err = "nil"
        /\ secrets[op[p].src].propTo = {op[p].key}
        /\ op[p].key \in DOMAIN secrets

----------------------------------------------------------------------------
\* Properties of the repeated PropagateConnection, under SpecRerun.

\* PropagateConnection returned the failure of the source secret's update,
\* after its Apply wrote the destination secret.
PartlyPropagated(p) ==
    /\ pc[p] = "done" /\ op[p].name = "PropagateConnection"
    /\ Len(log[p]) = 4 /\ log[p][4].err # "nil"

\* PropagateConnection went through all its calls and returned nil.
Propagated(p) ==
    /\ pc[p] = "done" /\ op[p].name = "PropagateConnection"
    /\ Len(log[p]) = 4 /\ ret[p] = nil

\* C17: after a PropagateConnection that wrote the destination secret and
\* failed to update the source secret, a later call of it for the same
\* managed resource and owner returns nil; when a call returns nil the
\* destination secret then holds the payload of the source secret and the
\* source secret is stored with the marker; and the Update of a destination secret
\* that holds the payload read from the source leaves the store as it is.
C17_RerunConverges ==
    /\ \A p \in {"p1"} : PartlyPropagated(p) ~> Propagated(p)
    /\ [][\A p \in {"p1"} :
            (pc[p] = "mark" /\ Propagated(p)')
            => /\ op[p].src \in DOMAIN secrets' /\ op[p].key \in DOMAIN secrets'
               /\ secrets'[op[p].key].data = secrets'[op[p].src].data
               /\ op[p].key \in secrets'[op[p].src].propTo]_vars
    /\ [][\A p \in {"p1"} :
            (/\ pc[p] = "update" /\ pc'[p] = "mark"
             /\ op[p].key \in DOMAIN secrets
             /\ secrets[op[p].key].data = log[p][1].body.data
             /\ secrets[op[p].key].ctrl = op[p].uid)
            => secrets' = secrets /\ clock' = clock]_vars

\* C17's case: the call before met a Conflict at the source secret, which was
\* then without marker; this call read the destination secret with the payload
\* that call wrote, updated it with the payload the source has now, stored
\* the marker and returned nil.
C17_Witness ==
    \E p \in {"p1"} :
        /\ Propagated(p)
        /\ log[p][2].err = "nil"
        /\ log[p][2].body.data["user"] = "a" /\ log[p][2].body.data["pass"] = Absent
        /\ log[p][3].verb = "Update"
        /\ secrets[op[p].src].data["pass"] = "a"
        /\ secrets[op[p].key].data = secrets[op[p].src].data
        /\ secrets[op[p].src].propTo = {op[p].key}
        /\ log[p][1].body.propTo = {}

\* The state C17 starts from is reached: the destination is written, the
\* source has changed, and its update met the Conflict.
C17_PartlyReached ==
    \E p \in {"p1"} :
        /\ PartlyPropagated(p)
        /\ log[p][4].err = "Conflict"
        /\ secrets[op[p].key].data = log[p][1].body.data
        /\ secrets[op[p].src].data # log[p][1].body.data

----------------------------------------------------------------------------
\* Properties of the finalizer helper and the initializer, under SpecManaged.

\* C8: AddFinalizer on an object that holds the controller's token returns
\* nil, leaves the object's finalizers as they are and calls the store not at
\* all; its step leaves the store as it is.
C8_AddFinalizerIdempotent ==
    /\ [](\A p \in Procs :
            (op[p].name = "AddFinalizer" /\ Finalizer[p] \in op[p].arg.fin)
            => /\ ret[p] = nil
               /\ log[p] = << >>
               /\ mg[p] = op[p].arg)
    /\ [][\A p \in Procs :
            (/\ pc[p] = "ready" /\ op'[p].name = "AddFinalizer"
             /\ Finalizer[p] \in mg[p].fin)
            => managed' = managed /\ clock' = clock]_vars

\* C8's case: the token is in the controller's copy and in the store, where
\* an earlier AddFinalizer of the controller wrote it, and the call returned.
C8_Witness ==
    \E p \in Procs :
        /\ pc[p] = "done" /\ op[p].name = "AddFinalizer"
        /\ Finalizer[p] \in op[p].arg.fin
        /\ Name \in DOMAIN managed
        /\ managed[Name] = mg[p]
        /\ ret[p] = nil /\ log[p] = << >>

\* C9: RemoveFinalizer issues one Update of the object without the
\* controller's token, whether or not the token was there; it returns nil when
\* the Update succeeds or answers NotFound and the wrapped error of the Update
\* otherwise, a Conflict included.
C9_RemoveFinalizerErrors ==
    \A p \in Procs :
        op[p].name = "RemoveFinalizer"
        => /\ Len(log[p]) = 1
           /\ log[p][1].verb = "Update"
           /\ log[p][1].body = [op[p].arg EXCEPT !.fin = @ \ {Finalizer[p]}]
           /\ Finalizer[p] \notin mg[p].fin
           /\ IF log[p][1].err \in {"nil", "NotFound"}
              THEN ret[p] = nil
              ELSE ret[p] = <<errUpdateManaged, log[p][1].err>>

\* C9's case: the object was deleted before the Update, which answered
\* NotFound, and RemoveFinalizer returned nil.
C9_Witness ==
    \E p \in Procs :
        /\ pc[p] = "done" /\ op[p].name = "RemoveFinalizer"
        /\ Finalizer[p] \in op[p].arg.fin
        /\ log[p][1].err = "NotFound"
        /\ Name \notin DOMAIN managed
        /\ ret[p] = nil

\* The other case of C9: the Update met a newer version and RemoveFinalizer
\* returned the Conflict.
C9_ConflictReached ==
    \E p \in Procs :
        /\ pc[p] = "done" /\ op[p].name = "RemoveFinalizer"
        /\ log[p][1].err = "Conflict"
        /\ ret[p] = <<errUpdateManaged, "Conflict">>

\* C10: Initialize on an object with an external name returns nil, leaves the
\* object as it is and calls the store not at all, and its step leaves the
\* store as it is; on an object without one it issues one Update of the
\* object with its own name as external name.
C10_InitializeNamesOnce ==
    /\ [](\A p \in Procs :
            op[p].name = "Initialize"
            => IF op[p].arg.ext # ""
               THEN ret[p] = nil /\ log[p] = << >> /\ mg[p] = op[p].arg
               ELSE /\ Len(log[p]) = 1
                    /\ log[p][1].verb = "Update"
                    /\ log[p][1].body = [op[p].arg EXCEPT !.ext = Name]
                    /\ mg[p].ext = Name
                    /\ ret[p] = Wrap(IF log[p][1].err = "nil" THEN nil
                                      ELSE <<log[p][1].err>>, errUpdateManaged))
    /\ [][\A p \in Procs :
            (pc[p] = "ready" /\ op'[p].name = "Initialize" /\ mg[p].ext # "")
            => managed' = managed /\ clock' = clock]_vars

\* C10's case: an external name that is not the resource's name is kept.
C10_Witness ==
    \E p \in Procs :
        /\ pc[p] = "done" /\ op[p].name = "Initialize"
        /\ op[p].arg.ext = "ext-7"
        /\ mg[p].ext = "ext-7"
        /\ managed[Name].ext = "ext-7"
        /\ log[p] = << >>

\* The other case of C10: the name was written as external name.
C10_NameWritten ==
    \E p \in Procs :
        /\ pc[p] = "done" /\ op[p].name = "Initialize"
        /\ op[p].arg.ext = ""
        /\ log[p][1].err = "nil"
        /\ managed[Name].ext = Name

\* C11: once the stored resource has an external name, no Initialize changes
\* it, whatever the copy the controller calls it with: a copy that holds the
\* name is skipped, a copy read before the name was set is refused by the
\* store's version check.
C11_ExternalNameKept ==
    [][\A p \in Procs :
         (/\ pc[p] = "ready" /\ pc'[p] = "done" /\ op'[p].name = "Initialize"
          /\ Name \in DOMAIN managed
          /\ managed[Name].ext # "")
         => /\ Name \in DOMAIN managed'
            /\ managed'[Name].ext = managed[Name].ext]_vars

\* C11's case: the controller read the resource without external name,
\* another writer named it "ext-7", and Initialize on the stale copy met a
\* Conflict; the stored name is still "ext-7".
C11_Witness ==
    \E p \in Procs :
        /\ pc[p] = "done" /\ op[p].name = "Initialize"
        /\ op[p].arg.ext = ""
        /\ Len(log[p]) = 1 /\ log[p][1].err = "Conflict"
        /\ ret[p] = <<errUpdateManaged, "Conflict">>
        /\ Name \in DOMAIN managed
        /\ managed[Name].ext = "ext-7"

FinalizerOps == {"AddFinalizer", "RemoveFinalizer"}

\* The call of the finalizer helper sent an Update that differs from the copy
\* it was called with.
UpdatedCopy(p) ==
    /\ pc[p] = "done" /\ op[p].name \in FinalizerOps
    /\ Len(log[p]) = 1
    /\ [log[p][1].body EXCEPT !.rv = NoRV] # [op[p].arg EXCEPT !.rv = NoRV]

C18_RemoveConflictReached ==
    \E p, q \in Procs :
        /\ p # q
        /\ UpdatedCopy(p) /\ UpdatedCopy(q)
        /\ op[p].name = "AddFinalizer" /\ op[q].name = "RemoveFinalizer"
        /\ op[p].arg = op[q].arg /\ op[p].arg.fin = {Finalizer[q]}
        /\ log[p][1].err = "nil" /\ log[q][1].err = "Conflict"
        /\ log[q][1].body.fin = {}
        /\ managed[Name].fin = Tokens

\* What the call of AddFinalizer or Initialize puts into the object: the
\* controller's token, the resource's name as external name.
HoldsChange(p, name, m) ==
    IF name = "AddFinalizer" THEN Finalizer[p] \in m.fin ELSE m.ext = Name

\* C19: after an Update of AddFinalizer or Initialize that failed, the
\* caller's object is the one that was sent, with the token or the external
\* name in it; and a call on an object that holds the token or an external
\* name returns nil, leaves the object as it is and calls the store not at
\* all, whether or not the stored resource holds it: the step leaves the
\* store as it is.
C19_ChangeNotRolledBack ==
    /\ [](\A p \in Procs :
            (/\ op[p].name \in {"AddFinalizer", "Initialize"}
             /\ Len(log[p]) = 1 /\ log[p][1].err # "nil")
            => /\ ret[p] = <<errUpdateManaged, log[p][1].err>>
               /\ mg[p] = log[p][1].body
               /\ ~HoldsChange(p, op[p].name, op[p].arg)
               /\ HoldsChange(p, op[p].name, mg[p]))
    /\ [][\A p \in Procs :
            (/\ pc[p] = "ready" /\ pc'[p] = "done"
             /\ \/ op'[p].name = "AddFinalizer" /\ Finalizer[p] \in mg[p].fin
                \/ op'[p].name = "Initialize" /\ mg[p].ext # "")
            => /\ ret'[p] = nil /\ log'[p] = << >>
               /\ mg'[p] = mg[p]
               /\ managed' = managed]_vars

\* C19's case: AddFinalizer returned nil without a call of the store on an
\* object that holds the token at the version of the stored resource, which
\* does not hold it: the object has it from a call whose Update failed.
C19_Witness ==
    \E p \in Procs :
        /\ pc[p] = "done" /\ op[p].name = "AddFinalizer"
        /\ ret[p] = nil /\ log[p] = << >>
        /\ Finalizer[p] \in mg[p].fin
        /\ Name \in DOMAIN managed
        /\ managed[Name].rv = mg[p].rv
        /\ Finalizer[p] \notin managed[Name].fin

\* The same case of C19 for Initialize: the external name is in the object
\* and not in the stored resource.
C19_InitializeReached ==
    \E p \in Procs :
        /\ pc[p] = "done" /\ op[p].name = "Initialize"
        /\ ret[p] = nil /\ log[p] = << >>
        /\ mg[p].ext = Name
        /\ Name \in DOMAIN managed
        /\ managed[Name].rv = mg[p].rv
        /\ managed[Name].ext = ""

\* The state C19 starts from: the Update of AddFinalizer met a Conflict and
\* the token is in the object alone.
C19_FailedReached ==
    \E p \in Procs :
        /\ pc[p] = "done" /\ op[p].name = "AddFinalizer"
        /\ Len(log[p]) = 1 /\ log[p][1].err = "Conflict"
        /\ Finalizer[p] \in mg[p].fin
        /\ Finalizer[p] \notin managed[Name].fin

=============================================================================
